---------------------------- MODULE Spec2Model ----------------------------
(***************************************************************************)
(* A model of devkit/techtree.py, the layout validator of the Easel        *)
(* library: the four layout tables, validate_layout, expand_layout, the    *)
(* loading loop of main, output_direct_deplines and compare_layout.        *)
(*                                                                         *)
(* Strings are TLA+ strings; a line of the dependency file is the string   *)
(* the file iterator yields, without its line terminator.  Python sets are *)
(* TLA+ sets, Python lists are sequences, and a dict is a function whose   *)
(* keys are iterated in the order of the dict literal (KeyOrder).          *)
(***************************************************************************)
EXTENDS Naturals, Sequences, FiniteSets, TLC

VARIABLES
    easelgrps,      \* list of group names
    easelmods,      \* dict: group -> list of module names
    easelparents,   \* dict: group -> set of groups
    easeladd,       \* dict: module -> set of modules
    pc,             \* the statement of main() the run is at
    status,         \* the exit status of the process, once it has ended
    stderr,         \* what ended the process: "" or the diagnostic
    stdout,         \* the print calls made so far
    todo,           \* expand_layout: keys of easelparents not yet visited
    g,              \* expand_layout: the loop variable of the first loop
    Ga,             \* expand_layout: group -> set of groups it may use
    pda,            \* expand_layout: the pushdown list
    Ma,             \* main: module -> set of allowed modules
    depfile,        \* the lines the file iterator has yielded so far
    m,              \* main: <<>> while unbound, <<name>> once assigned
    D,              \* main: module -> set of actual dependencies
    tok,            \* process_token called on its own: the argument
    ret             \* process_token called on its own: <<>> or <<result>>

vars == << easelgrps, easelmods, easelparents, easeladd, pc, status, stderr,
           stdout, todo, g, Ga, pda, Ma, depfile, m, D, tok, ret >>

layout == << easelgrps, easelmods, easelparents, easeladd >>

-----------------------------------------------------------------------------
(* Bounds of the model.                                                    *)

MaxGroups == 3      \* groups of a layout drawn by LayoutInit
MaxPda    == 3      \* cap on len(pda): a cyclic layout grows it for ever
MaxLines  == 3      \* lines the dependency file may hold
MaxNameLen == 2     \* length of the generated names given to process_token

-----------------------------------------------------------------------------
(* Strings.                                                                *)

Last(s) == SubSeq(s, Len(s), Len(s))

StartsWith(s, p) == Len(s) >= Len(p) /\ SubSeq(s, 1, Len(p)) = p

\* re.sub(r'^esl_', '', tok): one leading "esl_" is removed.
StripPrefix(s) ==
    IF StartsWith(s, "esl_") THEN SubSeq(s, 5, Len(s)) ELSE s

\* re.sub(r'.[coh]$', '', tok): the dot is unescaped, so ANY character
\* followed by a final c, o or h is removed together with it.
StripSuffix(s) ==
    IF Len(s) >= 2 /\ Last(s) \in {"c", "o", "h"}
    THEN SubSeq(s, 1, Len(s) - 2) ELSE s

process_token(t) == StripSuffix(StripPrefix(t))

\* The position of the first blank of s at or after i, or 0.
RECURSIVE FirstBlank(_, _)
FirstBlank(s, i) ==
    IF i > Len(s) THEN 0
    ELSE IF SubSeq(s, i, i) = " " THEN i
    ELSE FirstBlank(s, i + 1)

\* str.split(): the maximal blank-free pieces of s, in order.
RECURSIVE split(_)
split(s) ==
    IF s = "" THEN << >>
    ELSE IF SubSeq(s, 1, 1) = " " THEN split(SubSeq(s, 2, Len(s)))
    ELSE LET p == FirstBlank(s, 1) IN
         IF p = 0 THEN << s >>
         ELSE << SubSeq(s, 1, p - 1) >> \o split(SubSeq(s, p + 1, Len(s)))

\* re.match(r'(\S+): (.+)', line).  \S+ cannot cross a blank and must be
\* followed by ": ", so the colon is the character before the first blank
\* of the line; (.+) needs one more character after that blank.
match(line) ==
    LET p == FirstBlank(line, 1) IN
    /\ p >= 3
    /\ SubSeq(line, p - 1, p - 1) = ":"
    /\ Len(line) > p

group1(line) == SubSeq(line, 1, FirstBlank(line, 1) - 2)

group2(line) == SubSeq(line, FirstBlank(line, 1) + 1, Len(line))

-----------------------------------------------------------------------------
(* The layout tables of techtree.py.                                       *)

\* easelgrps
BuiltinGrps == << "BASE", "BIOLOGICAL_SEQUENCES", "NUMERICAL_METHODS",
       "ALGORITHMS", "FILE_INPUT", "ADVANCED_SEQUENCES",
       "MULTIPLE_ALIGNMENTS", "MULTIPLE_ALIGNMENT_FILES", "SEQUENCE_FILES",
       "STATISTICAL_DISTRIBUTIONS", "MIXTURE_DISTRIBUTIONS", "COMMANDLINE",
       "BENCHMARKS", "SIMD_VECTORS", "MULTITHREADING", "MPI" >>

\* The keys of the literal of easelmods, in its order.
BuiltinModsKeys == << "BASE", "ALGORITHMS", "NUMERICAL_METHODS",
       "BIOLOGICAL_SEQUENCES", "FILE_INPUT", "COMMANDLINE", "BENCHMARKS",
       "STATISTICAL_DISTRIBUTIONS", "MIXTURE_DISTRIBUTIONS",
       "ADVANCED_SEQUENCES", "MULTIPLE_ALIGNMENTS",
       "MULTIPLE_ALIGNMENT_FILES", "SEQUENCE_FILES", "SIMD_VECTORS",
       "MULTITHREADING", "MPI" >>

\* The keys of the literal of easelparents, in its order.
BuiltinParentsKeys == << "BASE", "BIOLOGICAL_SEQUENCES",
       "NUMERICAL_METHODS", "ALGORITHMS", "FILE_INPUT", "COMMANDLINE",
       "BENCHMARKS", "SIMD_VECTORS", "MULTITHREADING", "ADVANCED_SEQUENCES",
       "STATISTICAL_DISTRIBUTIONS", "MIXTURE_DISTRIBUTIONS",
       "MULTIPLE_ALIGNMENTS", "MULTIPLE_ALIGNMENT_FILES", "SEQUENCE_FILES",
       "MPI" >>

\* easelmods
BuiltinMods ==
    ("BASE" :> << "easel", "mem", "random", "regexp", "stack", "vectorops" >>) @@
    ("ALGORITHMS" :> << "arr2", "arr3", "bitfield", "cluster", "dmatrix",
         "heap", "keyhash", "matrixops", "quicksort", "red_black", "varint",
         "huffman", "graph", "tree" >>) @@
    ("NUMERICAL_METHODS" :> << "rootfinder", "minimizer", "rand64" >>) @@
    ("BIOLOGICAL_SEQUENCES" :> << "alphabet", "composition", "hmm" >>) @@
    ("FILE_INPUT" :> << "buffer", "fileparser", "recorder", "ssi", "json" >>) @@
    ("COMMANDLINE" :> << "getopts", "subcmd" >>) @@
    ("BENCHMARKS" :> << "stopwatch" >>) @@
    ("STATISTICAL_DISTRIBUTIONS" :> << "stats", "normal", "histogram",
         "exponential", "gamma", "gev", "gumbel", "stretchexp", "weibull" >>) @@
    ("MIXTURE_DISTRIBUTIONS" :> << "dirichlet", "mixgev", "hyperexp",
         "mixdchlet" >>) @@
    ("ADVANCED_SEQUENCES" :> << "distance", "wuss", "paml", "randomseq",
         "ratematrix", "scorematrix", "swat" >>) @@
    ("MULTIPLE_ALIGNMENTS" :> << "msa", "msacluster", "msashuffle",
         "msaweight" >>) @@
    ("MULTIPLE_ALIGNMENT_FILES" :> << "msafile", "msafile2", "msafile_a2m",
         "msafile_afa", "msafile_clustal", "msafile_phylip",
         "msafile_psiblast", "msafile_selex", "msafile_stockholm" >>) @@
    ("SEQUENCE_FILES" :> << "sq", "sqio_ascii", "sqio_ncbi", "sqio",
         "dsqdata", "gencode" >>) @@
    ("SIMD_VECTORS" :> << "alloc", "cpu", "sse", "avx", "avx512", "neon",
         "vmx" >>) @@
    ("MULTITHREADING" :> << "threads", "workqueue" >>) @@
    ("MPI" :> << "mpi" >>)

\* A faulty easelparents: no group is given a parent.
BuiltinParentsNone == [x \in DOMAIN BuiltinMods |-> {}]

\* easelparents
BuiltinParents ==
    ("BASE" :> {}) @@
    ("BIOLOGICAL_SEQUENCES" :> { "BASE" }) @@
    ("NUMERICAL_METHODS" :> { "BASE" }) @@
    ("ALGORITHMS" :> { "BASE" }) @@
    ("FILE_INPUT" :> { "BASE" }) @@
    ("COMMANDLINE" :> { "BASE" }) @@
    ("BENCHMARKS" :> { "BASE" }) @@
    ("SIMD_VECTORS" :> { "BASE" }) @@
    ("MULTITHREADING" :> { "BASE" }) @@
    ("ADVANCED_SEQUENCES" :> { "BIOLOGICAL_SEQUENCES", "NUMERICAL_METHODS",
         "ALGORITHMS", "FILE_INPUT" }) @@
    ("STATISTICAL_DISTRIBUTIONS" :> { "NUMERICAL_METHODS" }) @@
    ("MIXTURE_DISTRIBUTIONS" :> { "ALGORITHMS", "FILE_INPUT",
         "STATISTICAL_DISTRIBUTIONS" }) @@
    ("MULTIPLE_ALIGNMENTS" :> { "ADVANCED_SEQUENCES" }) @@
    ("MULTIPLE_ALIGNMENT_FILES" :> { "MULTIPLE_ALIGNMENTS" }) @@
    ("SEQUENCE_FILES" :> { "MULTIPLE_ALIGNMENT_FILES" }) @@
    ("MPI" :> { "SEQUENCE_FILES", "BENCHMARKS" })

\* easeladd
BuiltinAdd ==
    ("easel" :> {}) @@
    ("mem" :> { "easel" }) @@
    ("random" :> { "easel" }) @@
    ("regexp" :> { "easel" }) @@
    ("stack" :> { "easel", "random" }) @@
    ("vectorops" :> { "easel", "random" }) @@
    ("arr2" :> {}) @@
    ("arr3" :> {}) @@
    ("bitfield" :> {}) @@
    ("cluster" :> {}) @@
    ("dmatrix" :> {}) @@
    ("heap" :> {}) @@
    ("keyhash" :> {}) @@
    ("matrixops" :> {}) @@
    ("quicksort" :> {}) @@
    ("red_black" :> {}) @@
    ("varint" :> {}) @@
    ("huffman" :> { "quicksort" }) @@
    ("graph" :> { "matrixops" }) @@
    ("tree" :> { "arr2", "dmatrix", "stack" }) @@
    ("rootfinder" :> {}) @@
    ("minimizer" :> {}) @@
    ("rand64" :> {}) @@
    ("alphabet" :> {}) @@
    ("composition" :> {}) @@
    ("hmm" :> { "alphabet" }) @@
    ("buffer" :> {}) @@
    ("fileparser" :> {}) @@
    ("recorder" :> {}) @@
    ("ssi" :> {}) @@
    ("json" :> { "buffer" }) @@
    ("getopts" :> {}) @@
    ("subcmd" :> { "getopts" }) @@
    ("stopwatch" :> {}) @@
    ("stats" :> {}) @@
    ("normal" :> { "stats" }) @@
    ("histogram" :> { "stats" }) @@
    ("exponential" :> { "histogram", "stats" }) @@
    ("gamma" :> { "histogram", "stats" }) @@
    ("gev" :> { "stats" }) @@
    ("gumbel" :> { "stats" }) @@
    ("stretchexp" :> { "histogram", "stats" }) @@
    ("weibull" :> { "histogram", "stats" }) @@
    ("dirichlet" :> {}) @@
    ("hyperexp" :> {}) @@
    ("mixdchlet" :> { "dirichlet" }) @@
    ("mixgev" :> { "dirichlet" }) @@
    ("distance" :> {}) @@
    ("wuss" :> {}) @@
    ("paml" :> {}) @@
    ("randomseq" :> {}) @@
    ("ratematrix" :> {}) @@
    ("scorematrix" :> { "ratematrix" }) @@
    ("swat" :> { "scorematrix" }) @@
    ("msa" :> {}) @@
    ("msacluster" :> { "msa" }) @@
    ("msashuffle" :> { "msa" }) @@
    ("msaweight" :> { "msa", "msacluster" }) @@
    ("msafile" :> {}) @@
    ("msafile2" :> {}) @@
    ("msafile_a2m" :> { "msafile" }) @@
    ("msafile_afa" :> { "msafile" }) @@
    ("msafile_clustal" :> { "msafile" }) @@
    ("msafile_phylip" :> { "msafile" }) @@
    ("msafile_psiblast" :> { "msafile" }) @@
    ("msafile_selex" :> { "msafile" }) @@
    ("msafile_stockholm" :> { "msafile" }) @@
    ("sq" :> {}) @@
    ("sqio" :> { "sq" }) @@
    ("sqio_ascii" :> { "sq", "sqio" }) @@
    ("sqio_ncbi" :> { "sq", "sqio" }) @@
    ("dsqdata" :> { "sq", "sqio", "sqio_ascii" }) @@
    ("gencode" :> { "sq", "sqio", "sqio_ascii", "sqio_ncbi" }) @@
    ("alloc" :> {}) @@
    ("cpu" :> {}) @@
    ("sse" :> {}) @@
    ("avx" :> {}) @@
    ("avx512" :> {}) @@
    ("neon" :> {}) @@
    ("vmx" :> {}) @@
    ("threads" :> {}) @@
    ("workqueue" :> {}) @@
    ("mpi" :> {})

-----------------------------------------------------------------------------
(* Python containers.                                                      *)

set(lst) == { lst[i] : i \in 1..Len(lst) }

\* list(S) for a set S: its elements once each, in an order the hash
\* seed of the process decides.
list(S) ==
    { q \in [1..Cardinality(S) -> S] : \A x \in S : \E i \in DOMAIN q : q[i] = x }

\* The names a drawn layout may give its groups, in the order in which
\* its literals of easelmods and easelparents list their keys.
AllGroups == << "L1", "L2", "L3", "L4", "L5", "L6" >>

\* easelparents.keys(), and list(...) of a set of groups when one order
\* is as good as another: the keys in the order of the literal.
KeyOrder(S) == SelectSeq(AllGroups \o BuiltinParentsKeys, LAMBDA x : x \in S)

\* easelmods.keys(): the keys in the order of the literal.
ModsKeyOrder(S) == SelectSeq(AllGroups \o BuiltinModsKeys, LAMBDA x : x \in S)

RECURSIVE concat(_)
concat(lists) ==
    IF lists = << >> THEN << >> ELSE Head(lists) \o concat(Tail(lists))

\* One print call: what it is for, and the name, set or count it shows.
Printed(k, s, x, n) == [k |-> k, s |-> s, x |-> x, n |-> n]

-----------------------------------------------------------------------------
(* validate_layout: "" when the layout is accepted, else the message of    *)
(* the sys.exit that ends the process.                                     *)

\* Every module of every list of the dict mods, in key order.
Modules(mods) == concat([i \in 1..Len(ModsKeyOrder(DOMAIN mods)) |->
                            mods[ModsKeyOrder(DOMAIN mods)[i]]])

\* The list Mm of validate_layout.
MmList == Modules(easelmods)

\* A faulty validate_layout: the comparison of easelgrps with the
\* keys of easelparents is missing.
validate_layout_no_parents_check ==
    LET Gl == set(easelgrps)
        Gm == DOMAIN easelmods
        Mm == MmList
    IN  IF Gl # Gm
        THEN "easelgrps and easelmods have different set of group names"
        ELSE IF Len(Mm) # Cardinality(set(Mm))
        THEN "easelmods must have same module assigned to >1 group"
        ELSE IF set(Mm) # DOMAIN easeladd
        THEN "easelmods and easeladd have a different set of module names"
        ELSE ""

\* A faulty validate_layout: the test for a module listed more than
\* once is missing.
validate_layout_no_duplicate_check ==
    LET Gl == set(easelgrps)
        Gm == DOMAIN easelmods
        Gp == DOMAIN easelparents
        Mm == MmList
    IN  IF Gl # Gm
        THEN "easelgrps and easelmods have different set of group names"
        ELSE IF Gl # Gp
        THEN "easelgrps and easelparents have different set of group names"
        ELSE IF set(Mm) # DOMAIN easeladd
        THEN "easelmods and easeladd have a different set of module names"
        ELSE ""

validate_layout ==
    LET Gl == set(easelgrps)
        Gm == DOMAIN easelmods
        Gp == DOMAIN easelparents
        Mm == MmList
    IN  IF Gl # Gm
        THEN "easelgrps and easelmods have different set of group names"
        ELSE IF Gl # Gp
        THEN "easelgrps and easelparents have different set of group names"
        ELSE IF Len(Mm) # Cardinality(set(Mm))
        THEN "easelmods must have same module assigned to >1 group"
        ELSE IF set(Mm) # DOMAIN easeladd
        THEN "easelmods and easeladd have a different set of module names"
        ELSE ""

-----------------------------------------------------------------------------
(* expand_layout.                                                          *)

\* The groups reachable from the groups of S along at most k more parent
\* declarations; nothing is added once a step adds nothing.
RECURSIVE Closure(_, _)
Closure(S, k) ==
    LET T == S \cup UNION { easelparents[x] : x \in S \cap DOMAIN easelparents }
    IN  IF k = 0 \/ T = S THEN S ELSE Closure(T, k - 1)

\* ReachableLayers(g): the transitive closure of the parent relation,
\* starting from the direct parents of g.
ReachableLayers(gg) ==
    Closure(easelparents[gg], Cardinality(DOMAIN easelparents))

Acyclic == \A gg \in DOMAIN easelparents : gg \notin ReachableLayers(gg)

\* A faulty GaAdd: only the first group popped is recorded.
GaAddFirstOnly(G, gg, g2) == IF G[gg] = {} THEN [G EXCEPT ![gg] = {g2}] ELSE G

\* Ga[g].add(g2) of the while loop.
GaAdd(G, gg, g2) == [G EXCEPT ![gg] = @ \cup {g2}]

\* A KeyError of the second loop: a group of easelmods without a Ga entry,
\* a group of Ga[g] without a list, or a module without an easeladd entry.
MaKeyError ==
    \/ \E gg \in DOMAIN easelmods : gg \notin DOMAIN Ga
    \/ \E gg \in DOMAIN easelmods \cap DOMAIN Ga :
          \/ \E g2 \in Ga[gg] : g2 \notin DOMAIN easelmods
          \/ \E mm \in set(easelmods[gg]) : mm \notin DOMAIN easeladd

\* mdep of group gg: the modules of every group in Ga[gg].
mdep(gg) == UNION { set(easelmods[g2]) : g2 \in Ga[gg] }

\* A faulty Allowed: the module's own group counts as allowed.
AllowedWithOwnGroup(gg, mm) ==
    mdep(gg) \cup set(easelmods[gg]) \cup easeladd[mm]

\* Ma[m] = mdep | easeladd[m]
Allowed(gg, mm) == mdep(gg) \cup easeladd[mm]

\* The second loop: groups in key order, a later assignment to Ma[m]
\* replacing an earlier one.
RECURSIVE MaLoop(_, _)
MaLoop(keys, acc) ==
    IF keys = << >> THEN acc
    ELSE LET gg == Head(keys) IN
         MaLoop(Tail(keys),
                [mm \in set(easelmods[gg]) |-> Allowed(gg, mm)] @@ acc)

-----------------------------------------------------------------------------
(* The run of main().                                                      *)

Empty == [x \in {} |-> {}]

\* The process ends: sys.exit(msg) and an uncaught exception both leave
\* status 1 and a diagnostic on stderr; falling off main() leaves status 0.
Exit(code, msg) ==
    /\ pc' = "exit"
    /\ status' = << code >>
    /\ stderr' = msg

\* The argument counts a run may be started with.
ArgCounts == {1, 2, 3}

\* main(), the check of len(sys.argv).
Main ==
    /\ pc = "main"
    /\ \E argc \in ArgCounts :
          IF argc # 2
          THEN Exit(1, "Usage: techtree.py <.dep file>")
          ELSE pc' = "validate" /\ UNCHANGED << status, stderr >>
    /\ UNCHANGED << layout, stdout, todo, g, Ga, pda, Ma, depfile, m, D,
                    tok, ret >>

\* validate_layout(): exits on an inconsistent layout, else prints the two
\* counts and returns.
ValidateLayout ==
    /\ pc = "validate"
    /\ IF validate_layout # ""
       THEN /\ Exit(1, validate_layout)
            /\ UNCHANGED << stdout, todo >>
       ELSE /\ stdout' = stdout \o
                   << Printed("groups", "", {}, Cardinality(DOMAIN easelmods)),
                      Printed("modules", "", {}, Cardinality(set(MmList))) >>
            /\ pc' = "expand"
            /\ todo' = KeyOrder(DOMAIN easelparents)
            /\ UNCHANGED << status, stderr >>
    /\ UNCHANGED << layout, g, Ga, pda, Ma, depfile, m, D, tok, ret >>

\* for g in easelparents.keys(): Ga[g] = set(); pda = list(easelparents[g])
ExpandFor ==
    /\ pc = "expand"
    /\ pda = << >>
    /\ todo # << >>
    /\ g' = Head(todo)
    /\ todo' = Tail(todo)
    /\ Ga' = (Head(todo) :> {}) @@ Ga
    /\ pda' \in list(easelparents[Head(todo)])
    /\ UNCHANGED << layout, pc, status, stderr, stdout, Ma, depfile, m, D,
                    tok, ret >>

\* A faulty Extend: the parents of a popped group are not pushed.
ExtendNothing(rest, ext) == rest

\* A faulty Extend: a group already in Ga[g] is not pushed again.
ExtendUnseen(rest, ext) == rest \o SelectSeq(ext, LAMBDA x : x \notin Ga[g])

\* pda.extend(ext)
Extend(rest, ext) == rest \o ext

\* One turn of the while loop: g2 = pda.pop(); Ga[g].add(g2);
\* pda.extend(list(easelparents[g2])).  When the parent relation has a
\* cycle the list is kept from growing past MaxPda.
ExpandPop ==
    /\ pc = "expand"
    /\ pda # << >>
    /\ LET g2   == pda[Len(pda)]
           rest == SubSeq(pda, 1, Len(pda) - 1)
       IN  IF g2 \notin DOMAIN easelparents
           THEN /\ Exit(1, "KeyError")
                /\ Ga' = GaAdd(Ga, g, g2)
                /\ pda' = rest
           ELSE /\ IF Len(rest) + Cardinality(easelparents[g2]) <= MaxPda
                   THEN TRUE ELSE Acyclic
                /\ \E ext \in list(easelparents[g2]) :
                      pda' = Extend(rest, ext)
                /\ Ga' = GaAdd(Ga, g, g2)
                /\ UNCHANGED << pc, status, stderr >>
    /\ UNCHANGED << layout, stdout, todo, g, Ma, depfile, m, D, tok, ret >>

\* The second loop of expand_layout and its return into main's Ma.
ExpandModules ==
    /\ pc = "expand"
    /\ pda = << >>
    /\ todo = << >>
    /\ IF MaKeyError
       THEN Exit(1, "KeyError") /\ UNCHANGED Ma
       ELSE /\ Ma' = MaLoop(ModsKeyOrder(DOMAIN easelmods), Empty)
            /\ pc' = "open"
            /\ UNCHANGED << status, stderr >>
    /\ UNCHANGED << layout, stdout, todo, g, Ga, pda, depfile, m, D, tok, ret >>

\* open(sys.argv[1]): the file is there, or the open raises.
OpenFile ==
    /\ pc = "open"
    /\ \E found \in BOOLEAN :
          IF found
          THEN pc' = "load" /\ UNCHANGED << status, stderr >>
          ELSE Exit(1, "FileNotFoundError")
    /\ UNCHANGED << layout, stdout, todo, g, Ga, pda, Ma, depfile, m, D,
                    tok, ret >>

\* The fields of a line: of group 2 when the line starts a rule, else of
\* the whole line.
Fields(line) == IF match(line) THEN split(group2(line)) ELSE split(line)

\* The fields that pass  s != "\\" and s != 'esl_config.h'.
Kept(fields) ==
    SelectSeq(fields, LAMBDA s : s # "\\" /\ s # "esl_config.h")

\* A faulty Deps: a dependency of a module on itself is kept.
DepsWithSelf(mm, fields) ==
    { process_token(Kept(fields)[i]) : i \in 1..Len(Kept(fields)) }

\* What the for loop over the fields adds to D[mm]: every kept field,
\* normalized, unless it is mm itself.
Deps(mm, fields) ==
    { process_token(Kept(fields)[i]) : i \in 1..Len(Kept(fields)) } \ {mm}

\* D[m].add(s) for every s of deps.
DAdd(d, mm, deps) == [d EXCEPT ![mm] = @ \cup deps]

\* A faulty DReset: the set of a module that has one already is kept.
DKeep(d, mm) == IF mm \in DOMAIN d THEN d ELSE (mm :> {}) @@ d

\* D[m] = set() on a line that starts a rule.
DReset(d, mm) == (mm :> {}) @@ d

\* One turn of  for line in open(sys.argv[1]).  A line that starts a rule
\* binds m and resets D[m]; a kept field met while m is unbound raises
\* UnboundLocalError at  s != m.
ReadLine(line) ==
    /\ pc = "load"
    /\ Len(depfile) < MaxLines
    /\ depfile' = Append(depfile, line)
    /\ LET m1 == IF match(line) THEN << process_token(group1(line)) >> ELSE m
           D1 == IF match(line) THEN DReset(D, m1[1]) ELSE D
       IN  IF m1 = << >> /\ Kept(Fields(line)) # << >>
           THEN /\ Exit(1, "UnboundLocalError")
                /\ UNCHANGED << m, D >>
           ELSE /\ m' = m1
                /\ D' = IF m1 = << >> THEN D1
                        ELSE DAdd(D1, m1[1], Deps(m1[1], Fields(line)))
                /\ UNCHANGED << pc, status, stderr >>
    /\ UNCHANGED << layout, stdout, todo, g, Ga, pda, Ma, tok, ret >>

\* The file iterator is exhausted.
EndOfFile ==
    /\ pc = "load"
    /\ pc' = "report"
    /\ UNCHANGED << layout, status, stderr, stdout, todo, g, Ga, pda, Ma,
                    depfile, m, D, tok, ret >>

-----------------------------------------------------------------------------
(* output_direct_deplines and compare_layout.                              *)

\* The lists of the groups of a list of group names, one after the other.
InOrder(grps, mods) == concat([i \in 1..Len(grps) |-> mods[grps[i]]])

\* A faulty DepNames: the groups are taken in the key order of easelmods,
\* not in the order of easelgrps.
DepNamesInKeyOrder(d, mm) ==
    SelectSeq(Modules(easelmods), LAMBDA m2 : m2 \in d[mm])

\* What the two inner loops print for module mm: every module of the
\* layout, in the order of easelgrps and of the lists, that is in d[mm].
DepNames(d, mm) ==
    SelectSeq(InOrder(easelgrps, easelmods), LAMBDA m2 : m2 \in d[mm])

\* The print calls for module mm: its name, its dependencies, the end of
\* the line.  A module without an entry in d raises KeyError at
\* m2 in D[m], after its name is printed.
ModuleLine(d, mm) ==
    << Printed("name", mm, {}, 0) >> \o
    [i \in 1..Len(DepNames(d, mm)) |-> Printed("dep", DepNames(d, mm)[i], {}, 0)]
    \o << Printed("eol", mm, {}, 0) >>

RECURSIVE ModuleLines(_, _)
ModuleLines(d, mods) ==
    IF mods = << >> THEN [out |-> << >>, err |-> ""]
    ELSE IF Head(mods) \notin DOMAIN d
    THEN [out |-> << Printed("name", Head(mods), {}, 0) >>, err |-> "KeyError"]
    ELSE LET r == ModuleLines(d, Tail(mods)) IN
         [out |-> ModuleLine(d, Head(mods)) \o r.out, err |-> r.err]

\* output_direct_deplines(D) from group number i on: the print calls made
\* and "KeyError" when it raised.
RECURSIVE output_direct_deplines(_, _)
output_direct_deplines(d, i) ==
    IF i > Len(easelgrps)
    THEN [out |-> << Printed("blank", "", {}, 0) >>, err |-> ""]
    ELSE LET head == << Printed("group", easelgrps[i], {}, 0) >>
             these == ModuleLines(d, easelmods[easelgrps[i]])
         IN  IF these.err # ""
             THEN [out |-> head \o these.out, err |-> these.err]
             ELSE LET r == output_direct_deplines(d, i + 1) IN
                  [out |-> head \o these.out \o r.out, err |-> r.err]

\* The keys of Ma in the order in which expand_layout inserted them.
RECURSIVE FirstSeen(_, _)
FirstSeen(lst, seen) ==
    IF lst = << >> THEN << >>
    ELSE IF Head(lst) \in seen THEN FirstSeen(Tail(lst), seen)
    ELSE << Head(lst) >> \o FirstSeen(Tail(lst), seen \cup {Head(lst)})

MaKeys == FirstSeen(Modules(easelmods), {})

\* if not Ma[m] >= D[m]
Violates(ma, d, mm) == ~ (d[mm] \subseteq ma[mm])

\* compare_layout(Ma, D) over the keys left: the print calls made and
\* "KeyError" when D has no entry for a key.
RECURSIVE compare_layout(_, _, _)
compare_layout(ma, d, keys) ==
    IF keys = << >> THEN [out |-> << >>, err |-> ""]
    ELSE IF Head(keys) \notin DOMAIN d THEN [out |-> << >>, err |-> "KeyError"]
    ELSE LET mm == Head(keys)
             r  == compare_layout(ma, d, Tail(keys))
         IN  [out |-> (IF Violates(ma, d, mm)
                       THEN << Printed("violation", mm, d[mm] \ ma[mm], 0) >>
                       ELSE << >>) \o r.out,
              err |-> r.err]

\* main(): output_direct_deplines(D)
OutputDirectDeplines ==
    /\ pc = "report"
    /\ LET r == output_direct_deplines(D, 1) IN
       /\ stdout' = stdout \o r.out
       /\ IF r.err # "" THEN Exit(1, r.err)
          ELSE pc' = "compare" /\ UNCHANGED << status, stderr >>
    /\ UNCHANGED << layout, todo, g, Ga, pda, Ma, depfile, m, D, tok, ret >>

\* main(): compare_layout(Ma, D), after which main() returns and the
\* process ends with status 0.
CompareLayout ==
    /\ pc = "compare"
    /\ LET r == compare_layout(Ma, D, MaKeys) IN
       /\ stdout' = stdout \o r.out
       /\ IF r.err # "" THEN Exit(1, r.err) ELSE Exit(0, "")
    /\ UNCHANGED << layout, todo, g, Ga, pda, Ma, depfile, m, D, tok, ret >>

-----------------------------------------------------------------------------
(* Layouts.                                                                *)

GroupsOf(n) == { AllGroups[i] : i \in 1..n }

\* The module names of the drawn layouts, and the lists a group may hold.
ModNames == {"a", "b"}

ModLists == { << >>, << "a" >>, << "b" >>, << "a", "b" >>, << "b", "a" >>,
              << "a", "a" >> }

\* The subsets of S of at most k elements.
RECURSIVE UpTo(_, _)
UpTo(S, k) ==
    IF k = 0 THEN { {} }
    ELSE UpTo(S, k - 1) \cup { T \cup {x} : T \in UpTo(S, k - 1), x \in S }

\* The parents dict of a set of (group, parent) pairs: a parent set names
\* groups that have an entry of their own, as every entry of the built-in
\* easelparents does.
Parents(S, E) == [x \in S |-> { y \in S : << x, y >> \in E }]

\* A key set that is S, or S less one name, or S and one more name.
KeyVariants(S, extra) ==
    {S} \cup { S \ {x} : x \in S } \cup { S \cup {extra} }

NoRepeat(lst) == Len(lst) = Cardinality(set(lst))

StartOfRun ==
    /\ pc = "main" /\ status = << >> /\ stderr = "" /\ stdout = << >>
    /\ todo = << >> /\ g = "" /\ Ga = Empty /\ pda = << >> /\ Ma = Empty
    /\ depfile = << >> /\ m = << >> /\ D = Empty
    /\ tok = "" /\ ret = << >>

\* The extras a consistent layout may declare: for every module, other
\* module names.
Extras(mods) ==
    { add \in [set(Modules(mods)) -> SUBSET ModNames] :
         \A x \in DOMAIN add : x \notin add[x] }

\* A layout of n groups without parents in which one key set may be off by
\* a name and the lists are of any kind.
AnyShape(n) ==
    LET S == GroupsOf(n) IN
    /\ easelgrps = SubSeq(AllGroups, 1, n)
    /\ \E Gp \in KeyVariants(S, AllGroups[n + 1]) :
       \E Gm \in KeyVariants(S, AllGroups[n + 1]) :
          /\ Gp = S \/ Gm = S
          /\ easelparents = [x \in Gp |-> {}]
          /\ \E mods \in [Gm -> ModLists] :
                /\ easelmods = mods
                /\ \E K \in KeyVariants(set(Modules(mods)), "x") :
                      easeladd = [x \in K |-> {}]

\* The layouts of LayoutSpec: up to MaxGroups groups holding the modules
\* a and b.  Three kinds are drawn: every module in one place, no extras,
\* and up to MaxGroups parent declarations of any kind (cycles included);
\* every module in one place, any extras, and at most one parent
\* declaration; and layouts without parents in which one key set may be
\* off by a name and the lists are of any kind.
LayoutInit ==
    /\ StartOfRun
    /\ \E n \in 1..MaxGroups :
          LET S == GroupsOf(n) IN
          /\ easelgrps = SubSeq(AllGroups, 1, n)
          /\ \/ /\ \E E \in UpTo(S \X S, MaxGroups) :
                      easelparents = Parents(S, E)
                /\ \E mods \in [S -> ModLists] :
                      /\ NoRepeat(Modules(mods))
                      /\ easelmods = mods
                      /\ easeladd = [x \in set(Modules(mods)) |-> {}]
             \/ /\ \E E \in UpTo(S \X S, 1) :
                      easelparents = Parents(S, E)
                /\ \E mods \in [S -> ModLists] :
                      /\ NoRepeat(Modules(mods))
                      /\ easelmods = mods
                      /\ \E add \in Extras(mods) : easeladd = add
             \/ AnyShape(n)

\* validate_layout() and expand_layout() as main() calls them.
LayoutNext == Main \/ ValidateLayout \/ ExpandFor \/ ExpandPop \/ ExpandModules

LayoutSpec == LayoutInit /\ [][LayoutNext]_vars

\* The layout of techtree.py itself.
BuiltinInit ==
    /\ StartOfRun
    /\ easelgrps = BuiltinGrps
    /\ easelmods = BuiltinMods
    /\ easelparents = BuiltinParents
    /\ easeladd = BuiltinAdd

BuiltinSpec == BuiltinInit /\ [][LayoutNext]_vars

\* Layouts for the traversal alone: up to MaxGroups groups without
\* modules and up to MaxGroups parent declarations of any kind, and the
\* layout of techtree.py.
TraversalInit ==
    /\ StartOfRun
    /\ \/ /\ easelgrps = BuiltinGrps
          /\ easelmods = BuiltinMods
          /\ easelparents = BuiltinParents
          /\ easeladd = BuiltinAdd
       \/ \E n \in 1..MaxGroups :
             /\ easelgrps = SubSeq(AllGroups, 1, n)
             /\ \E E \in UpTo(GroupsOf(n) \X GroupsOf(n), MaxGroups) :
                   easelparents = Parents(GroupsOf(n), E)
             /\ easelmods = [x \in GroupsOf(n) |-> << >>]
             /\ easeladd = Empty

\* The interpreter runs the next statement for as long as there is one.
TraversalSpec == TraversalInit /\ [][LayoutNext]_vars /\ WF_vars(LayoutNext)

-----------------------------------------------------------------------------
(* Whole runs of the tool on a two-group layout.                           *)

\* The layouts of Spec: the groups L1 and L2 in either order; a in L1 and
\* b in L2, or both in L1, or a in both groups; L2 with or without the
\* parent L1; b with or without the extra a.
RunGrps == { << "L1", "L2" >>, << "L2", "L1" >> }

RunMods == { ("L1" :> << "a" >>) @@ ("L2" :> << "b" >>),
             ("L1" :> << "b", "a" >>) @@ ("L2" :> << >>),
             ("L1" :> << "a" >>) @@ ("L2" :> << "b", "a" >>) }

RunParents == { ("L1" :> {}) @@ ("L2" :> {}),
                ("L1" :> {}) @@ ("L2" :> {"L1"}) }

RunAdd == { ("a" :> {}) @@ ("b" :> {}),
            ("a" :> {}) @@ ("b" :> {"a"}) }

\* The lines a dependency file is made of.
Lines == { "b.o: b.c a.h",
           "a.o: a.c",
           "esl_a.o: esl_a.c esl_config.h esl_b.h \\",
           "esl_b.o: esl_b.c x.h",
           "  x.h",
           "  esl_a.h esl_config.h",
           "  \\",
           "esl_config.h" }

\* The three conditions of an inconsistent layout, and a fourth the code
\* treats alike: a name repeated inside one list.
KeysDiffer ==
    \/ set(easelgrps) # DOMAIN easelmods
    \/ set(easelgrps) # DOMAIN easelparents

SharedModule ==
    \E g1 \in DOMAIN easelmods : \E g2 \in DOMAIN easelmods :
       g1 # g2 /\ set(easelmods[g1]) \cap set(easelmods[g2]) # {}

AddKeysDiffer ==
    UNION { set(easelmods[gg]) : gg \in DOMAIN easelmods } # DOMAIN easeladd

RepeatedInList ==
    \E gg \in DOMAIN easelmods :
       \E i \in 1..Len(easelmods[gg]) : \E j \in 1..Len(easelmods[gg]) :
          i < j /\ easelmods[gg][i] = easelmods[gg][j]

Inconsistent == KeysDiffer \/ SharedModule \/ AddKeysDiffer

\* The layouts of Spec: the two-group layouts above, and every layout of
\* up to MaxGroups groups that breaks one of the four conditions.
Init ==
    /\ StartOfRun
    /\ \/ /\ easelgrps \in RunGrps
          /\ easelmods \in RunMods
          /\ easelparents \in RunParents
          /\ easeladd \in RunAdd
       \/ \E n \in 1..MaxGroups :
             /\ AnyShape(n)
             /\ Inconsistent \/ RepeatedInList

Next ==
    \/ Main
    \/ ValidateLayout
    \/ ExpandFor
    \/ ExpandPop
    \/ ExpandModules
    \/ OpenFile
    \/ \E line \in Lines : ReadLine(line)
    \/ EndOfFile
    \/ OutputDirectDeplines
    \/ CompareLayout

Spec == Init /\ [][Next]_vars

-----------------------------------------------------------------------------
(* Whole runs of the tool on a layout of three modules.                    *)

\* a in L1, b and x in L2, no extras.
ThreeMods == ("L1" :> << "a" >>) @@ ("L2" :> << "b", "x" >>)

ThreeAdd == ("a" :> {}) @@ ("b" :> {}) @@ ("x" :> {})

\* The lines of its dependency file: a rule for each module, the rule of
\* x with its tokens in two orders, and a continuation line.
ReportLines == { "a.o: a.c",
                 "b.o: b.c a.h",
                 "x.o: x.c b.h a.h",
                 "x.o: a.h x.c b.h",
                 "  esl_a.h esl_config.h" }

ReportInit ==
    /\ StartOfRun
    /\ easelgrps \in RunGrps
    /\ easelmods = ThreeMods
    /\ easelparents \in RunParents
    /\ easeladd = ThreeAdd

ReportNext ==
    \/ Main
    \/ ValidateLayout
    \/ ExpandFor
    \/ ExpandPop
    \/ ExpandModules
    \/ OpenFile
    \/ \E line \in ReportLines : ReadLine(line)
    \/ EndOfFile
    \/ OutputDirectDeplines
    \/ CompareLayout

ReportSpec == ReportInit /\ [][ReportNext]_vars

-----------------------------------------------------------------------------
(* process_token called on its own.                                        *)

Alphabet == {"a", "c", "h", "o", "t"}

\* The strings over Alphabet of length 1 to n.
RECURSIVE Words(_)
Words(n) ==
    IF n = 0 THEN { "" }
    ELSE Words(n - 1) \cup { w \o x : w \in Words(n - 1), x \in Alphabet }

\* Bare module names: the generated ones and some of easelmods.
BareNames == (Words(MaxNameLen) \ { "" }) \cup { "stopwatch", "sqio", "easel", "msa" }

FileNames(n) == { "esl_" \o n \o ".o", "esl_" \o n \o ".c", "esl_" \o n \o ".h" }

TokenInit ==
    /\ pc = "token" /\ status = << >> /\ stderr = "" /\ stdout = << >>
    /\ todo = << >> /\ g = "" /\ Ga = Empty /\ pda = << >> /\ Ma = Empty
    /\ depfile = << >> /\ m = << >> /\ D = Empty
    /\ easelgrps = << >> /\ easelmods = Empty /\ easelparents = Empty
    /\ easeladd = Empty
    /\ tok \in BareNames \cup UNION { FileNames(n) : n \in BareNames }
    /\ ret = << >>

\* process_token(tok) returns.
ProcessToken ==
    /\ pc = "token"
    /\ ret = << >>
    /\ ret' = << process_token(tok) >>
    /\ UNCHANGED << layout, pc, status, stderr, stdout, todo, g, Ga, pda, Ma,
                    depfile, m, D, tok >>

TokenNext == ProcessToken

TokenSpec == TokenInit /\ [][TokenNext]_vars

-----------------------------------------------------------------------------
(* What the claims speak of.                                               *)

\* expand_layout has returned.
Expanded == pc \in {"open", "load", "report", "compare"}

\* The cap MaxPda never stops the traversal of an acyclic layout.
CapIsSlack ==
    (pc = "expand" /\ pda # << >> /\ Acyclic) =>
        Len(pda) - 1 + Cardinality(easelparents[pda[Len(pda)]]) <= MaxPda

(***************************************************************************)
(* C1.  For a validated layout with an acyclic parent relation,            *)
(* expand_layout returns, for every module mm of every group gg, exactly   *)
(* the modules of the groups in the transitive closure of the parents of   *)
(* gg, united with easeladd[mm]; Ma has an entry for every module.         *)
(***************************************************************************)
C1_ClosureExact ==
    (Expanded /\ Acyclic) =>
        /\ DOMAIN Ma = set(MmList)
        /\ \A gg \in DOMAIN easelmods : \A mm \in set(easelmods[gg]) :
              Ma[mm] = UNION { set(easelmods[h]) : h \in ReachableLayers(gg) }
                          \cup easeladd[mm]

\* A chain of two parent declarations with a module at each end: the
\* module at the top is allowed the module at the bottom.
C1_Witness ==
    /\ pc = "open"
    /\ \E A, B, C \in DOMAIN easelparents :
          /\ B \in easelparents[A] /\ C \in easelparents[B]
          /\ C \notin easelparents[A]
          /\ \E x \in set(easelmods[A]) : \E y \in set(easelmods[C]) :
                y \in Ma[x]

(***************************************************************************)
(* C2.  No same-layer leakage: when expand_layout has returned, a module   *)
(* Y of the same group as X, Y # X, is in Ma[X] only if easeladd[X] lists  *)
(* it; and at every step of the traversal a group is in its own Ga entry   *)
(* only if the parent relation has a cycle through it.                     *)
(***************************************************************************)
C2_NoSameLayerLeak ==
    /\ Expanded /\ Acyclic =>
          \A gg \in DOMAIN easelmods :
             \A X \in set(easelmods[gg]) : \A Y \in set(easelmods[gg]) :
                (X # Y /\ Y \notin easeladd[X]) => Y \notin Ma[X]
    /\ \A gg \in DOMAIN Ga : gg \in Ga[gg] => gg \in ReachableLayers(gg)

\* Two modules of one group under a parent: the one that declares the
\* other as an extra is allowed it, the other is not.
C2_Witness ==
    /\ pc = "open"
    /\ \E gg \in DOMAIN easelmods :
          /\ set(easelmods[gg]) = {"a", "b"}
          /\ easelparents[gg] # {}
          /\ easeladd["a"] = {"b"} /\ easeladd["b"] = {}
          /\ "b" \in Ma["a"] /\ "a" \notin Ma["b"]

Usage == "Usage: techtree.py <.dep file>"

ValidateMessages ==
    { "easelgrps and easelmods have different set of group names",
      "easelgrps and easelparents have different set of group names",
      "easelmods must have same module assigned to >1 group",
      "easelmods and easeladd have a different set of module names" }

\* validate_layout has been called and has returned or exited.
Validated == pc \notin {"main", "validate", "token"} /\ stderr # Usage

\* validate_layout ended the process.
Rejected == pc = "exit" /\ status = << 1 >> /\ stderr \in ValidateMessages

SummaryPrinted ==
    \E i \in 1..Len(stdout) : \E j \in 1..Len(stdout) :
       /\ stdout[i] = Printed("groups", "", {}, Cardinality(set(easelgrps)))
       /\ stdout[j] = Printed("modules", "", {}, Cardinality(DOMAIN easeladd))

(***************************************************************************)
(* C8 as claimed.  validate_layout exits if and only if the key sets       *)
(* differ, or two different groups share a module, or the modules differ   *)
(* from the keys of easeladd; the summary is printed only on acceptance.   *)
(***************************************************************************)
C8_Original ==
    Validated =>
        /\ Rejected <=> (KeysDiffer \/ SharedModule \/ AddKeysDiffer)
        /\ SummaryPrinted <=> ~ Rejected

(***************************************************************************)
(* C8 as amended.  validate_layout exits if and only if the key sets       *)
(* differ, or some module name occurs more than once in the lists taken    *)
(* together (in two groups, or twice in one list), or the modules differ   *)
(* from the keys of easeladd; the summary is printed only on acceptance.   *)
(***************************************************************************)
C8_Amended ==
    Validated =>
        /\ Rejected <=>
              (KeysDiffer \/ SharedModule \/ RepeatedInList \/ AddKeysDiffer)
        /\ SummaryPrinted <=> ~ Rejected

\* A layout whose only irregularity is a name repeated inside one list is
\* rejected.
C8_Witness ==
    /\ Rejected
    /\ RepeatedInList
    /\ ~ KeysDiffer /\ ~ SharedModule /\ ~ AddKeysDiffer

(***************************************************************************)
(* C9.  Validation is a gate: while the layout is inconsistent, the run    *)
(* is before or in validate_layout or has exited with status 1 from it     *)
(* (or from the usage check); expand_layout has not taken a step, the      *)
(* input file has not been opened or read, and nothing has been printed.   *)
(***************************************************************************)
C9_Gate ==
    Inconsistent =>
        /\ pc \in {"main", "validate", "exit"}
        /\ pc = "exit" => status = << 1 >> /\ stderr \in ValidateMessages \cup {Usage}
        /\ todo = << >> /\ g = "" /\ Ga = Empty /\ pda = << >> /\ Ma = Empty
        /\ depfile = << >> /\ m = << >> /\ D = Empty
        /\ stdout = << >>

\* A layout with a module in two groups has been rejected.
C9_Witness ==
    /\ SharedModule
    /\ pc = "exit"
    /\ stderr = "easelmods must have same module assigned to >1 group"

-----------------------------------------------------------------------------
(* The dependency file and the report.                                     *)

\* No continuation line comes before the first line that starts a rule.
WellFormed == depfile = << >> \/ match(depfile[1])

\* The numbers of the lines that start a rule, and the module of each.
Targets == { i \in 1..Len(depfile) : match(depfile[i]) }

TargetOf(i) == process_token(group1(depfile[i]))

\* The last rule of module mm.
LastRule(mm) ==
    CHOOSE i \in Targets :
       TargetOf(i) = mm /\ \A j \in Targets : TargetOf(j) = mm => j <= i

\* The lines of the rule that starts at line i: up to the next rule.
RuleLines(i) ==
    { k \in i..Len(depfile) : \A j \in Targets : j > i => k < j }

\* The dependency tokens of line k: all its words, but for the target.
TokensOf(k) ==
    IF k \in Targets THEN set(Tail(split(depfile[k])))
    ELSE set(split(depfile[k]))

\* ActualSet of the rule that starts at line i.
ActualSet(i) ==
    { process_token(t) :
         t \in UNION { TokensOf(k) : k \in RuleLines(i) } \ {"\\", "esl_config.h"} }
    \ { TargetOf(i) }

(***************************************************************************)
(* C7.  While the lines read form a well-formed listing, D has an entry    *)
(* for exactly the targets seen, and D[mm] is exactly the set of the       *)
(* normalized tokens of the (last) rule of mm, from its target line up to  *)
(* the next target line, other than the continuation marker, esl_config.h *)
(* and the tokens that normalize to mm; mm is never in D[mm].              *)
(***************************************************************************)
C7_ActualSetExact ==
    WellFormed =>
        /\ DOMAIN D = { TargetOf(i) : i \in Targets }
        /\ \A mm \in DOMAIN D : D[mm] = ActualSet(LastRule(mm)) /\ mm \notin D[mm]

\* Two rules, the second with a dependency on itself and a continuation
\* line: the token of the continuation line is in the set of the second
\* target only.
C7_Witness ==
    /\ Len(depfile) = 3
    /\ Targets = {1, 2}
    /\ TargetOf(1) = "a" /\ TargetOf(2) = "b"
    /\ "b.c" \in TokensOf(2)
    /\ \E t \in TokensOf(3) :
          process_token(t) \in D["b"] /\ process_token(t) \notin D["a"]

\* ActualSet(mm) as the comparator is to see it: empty without an entry.
Actual(mm) == IF mm \in DOMAIN D THEN D[mm] ELSE {}

\* The violations printed for module mm.
ViolationsOf(mm) ==
    { i \in 1..Len(stdout) : stdout[i].k = "violation" /\ stdout[i].s = mm }

\* Module mm is listed with no dependencies.
ListedBare(mm) ==
    \E i \in 1..Len(stdout) - 1 :
       /\ stdout[i] = Printed("name", mm, {}, 0)
       /\ stdout[i + 1] = Printed("eol", mm, {}, 0)

\* The process has ended after the whole file was read.
RunOver == pc = "exit" /\ stderr \in {"", "KeyError"} /\ DOMAIN Ma = set(MmList)

(***************************************************************************)
(* C3 as claimed.  When a run is over, a violation is reported for mm if   *)
(* and only if mm is a module of the layout and ActualSet(mm) minus        *)
(* AllowedSet(mm) is not empty; it is reported once, with that difference. *)
(***************************************************************************)
C3_Claim ==
    RunOver =>
        /\ \A mm \in DOMAIN D \ set(MmList) : ViolationsOf(mm) = {}
        /\ \A mm \in set(MmList) :
              IF Actual(mm) \ Ma[mm] = {}
              THEN ViolationsOf(mm) = {}
              ELSE /\ Cardinality(ViolationsOf(mm)) = 1
                   /\ \A i \in ViolationsOf(mm) : stdout[i].x = Actual(mm) \ Ma[mm]

(***************************************************************************)
(* C4 as claimed.  When a run is over, every module of the layout without  *)
(* a target line was taken to depend on nothing: the run ended with        *)
(* status 0, the module is listed with no dependencies, and no violation   *)
(* is reported for it.                                                     *)
(***************************************************************************)
C4_Claim ==
    RunOver =>
        \A mm \in set(MmList) \ DOMAIN D :
           /\ status = << 0 >>
           /\ ListedBare(mm)
           /\ ViolationsOf(mm) = {}

(***************************************************************************)
(* C5 as claimed.  Once a continuation line has been read before any       *)
(* target line, the run has ended with a non-zero status and a diagnostic, *)
(* whatever the line holds.                                                *)
(***************************************************************************)
C5_Claim ==
    ~ WellFormed => pc = "exit" /\ status = << 1 >> /\ stderr # ""

(***************************************************************************)
(* C10 as claimed.  A run on a consistent acyclic layout and a well-formed *)
(* listing that has ended, ended with status 0, having reported every      *)
(* module whose dependencies exceed what it is allowed.                    *)
(***************************************************************************)
C10_Claim ==
    ( /\ pc = "exit"
      /\ stderr \notin {Usage, "FileNotFoundError"}
      /\ ~ Inconsistent /\ ~ RepeatedInList /\ Acyclic
      /\ WellFormed ) =>
        /\ status = << 0 >>
        /\ \A mm \in set(MmList) :
              Actual(mm) \ Ma[mm] # {} => ViolationsOf(mm) # {}

(***************************************************************************)
(* C6 as claimed.  For every bare name n, process_token maps esl_n.o,      *)
(* esl_n.c and esl_n.h to n, and n to n.                                   *)
(***************************************************************************)
C6_Claim ==
    ret # << >> =>
        \A n \in BareNames : tok \in FileNames(n) \cup {n} => ret = << n >>

-----------------------------------------------------------------------------
(* The listing section.                                                    *)

IsPrefix(s, t) == Len(s) <= Len(t) /\ SubSeq(t, 1, Len(s)) = s

\* The listing a layout and an ActualSet map call for.
ExpectedDeps(mm) ==
    LET order == concat([i \in 1..Len(easelgrps) |-> easelmods[easelgrps[i]]])
    IN  SelectSeq(order, LAMBDA y : y \in Actual(mm))

ExpectedModule(mm) ==
    << Printed("name", mm, {}, 0) >> \o
    [i \in 1..Len(ExpectedDeps(mm)) |-> Printed("dep", ExpectedDeps(mm)[i], {}, 0)]
    \o << Printed("eol", mm, {}, 0) >>

ExpectedGroup(gg) ==
    << Printed("group", gg, {}, 0) >> \o
    concat([i \in 1..Len(easelmods[gg]) |-> ExpectedModule(easelmods[gg][i])])

ExpectedListing ==
    concat([i \in 1..Len(easelgrps) |-> ExpectedGroup(easelgrps[i])])
    \o << Printed("blank", "", {}, 0) >>

\* What has been printed after the two lines of the summary.
Report == SubSeq(stdout, 3, Len(stdout))

\* Its records up to the first violation line.
ListingPrinted ==
    LET v == { i \in 1..Len(Report) : Report[i].k = "violation" }
    IN  IF v = {} THEN Report
        ELSE SubSeq(Report, 1, (CHOOSE i \in v : \A j \in v : i <= j) - 1)

(***************************************************************************)
(* C11.  The listing printed is, record by record, the listing the layout  *)
(* and the ActualSet map call for: groups in the order of easelgrps,       *)
(* modules in the order of their list, and after each module the layout    *)
(* modules of its ActualSet in global layout order, whatever the order of  *)
(* the rules and tokens of the file; it is the whole of it once            *)
(* output_direct_deplines has returned, and every violation line comes     *)
(* after the whole of it.                                                  *)
(***************************************************************************)
C11_ListingOrder ==
    Len(stdout) >= 2 =>
        /\ IsPrefix(ListingPrinted, ExpectedListing)
        /\ (pc = "compare" \/ status = << 0 >>) => ListingPrinted = ExpectedListing
        /\ \A i \in 1..Len(Report) :
              Report[i].k = "violation" =>
                 /\ i > Len(ExpectedListing)
                 /\ ListingPrinted = ExpectedListing
                 /\ \A j \in i..Len(Report) : Report[j].k = "violation"

\* A run that ended with status 0 on the groups in the order L2, L1: the
\* rule of x names b.h after a.h, x is listed with b before a, and a
\* violation line follows the listing.
C11_Witness ==
    /\ status = << 0 >>
    /\ easelgrps = << "L2", "L1" >>
    /\ \E i \in 1..Len(depfile) : depfile[i] = "x.o: a.h x.c b.h"
    /\ ExpectedDeps("x") = << "b", "a" >>
    /\ \E i \in 1..Len(Report) - 3 :
          /\ Report[i] = Printed("name", "x", {}, 0)
          /\ Report[i + 1] = Printed("dep", "b", {}, 0)
          /\ Report[i + 2] = Printed("dep", "a", {}, 0)
          /\ Report[i + 3] = Printed("eol", "x", {}, 0)
    /\ Report[Len(Report)].k = "violation"

-----------------------------------------------------------------------------
(* expand_layout called again.                                             *)

\* The while loop for group gg, every list(...) in key order.
RECURSIVE WhileAgain(_, _, _)
WhileAgain(stack, G, gg) ==
    IF stack = << >> THEN G
    ELSE LET g2   == stack[Len(stack)]
             rest == SubSeq(stack, 1, Len(stack) - 1)
         IN  WhileAgain(Extend(rest, KeyOrder(easelparents[g2])),
                        GaAdd(G, gg, g2), gg)

\* The first loop of a second call of expand_layout on the same layout.
RECURSIVE ForAgain(_, _)
ForAgain(keys, G) ==
    IF keys = << >> THEN G
    ELSE ForAgain(Tail(keys),
                  WhileAgain(KeyOrder(easelparents[Head(keys)]),
                             (Head(keys) :> {}) @@ G, Head(keys)))

GaAgain == ForAgain(KeyOrder(DOMAIN easelparents), Empty)

\* The mapping the second call returns.
MaAgain ==
    [mm \in set(MmList) |->
        LET gg == CHOOSE x \in DOMAIN easelmods : mm \in set(easelmods[x])
        IN  UNION { set(easelmods[g2]) : g2 \in GaAgain[gg] } \cup easeladd[mm]]

(***************************************************************************)
(* C12.  No step of expand_layout changes easelgrps, easelmods,            *)
(* easelparents or easeladd, prints, or reads the file; and when it        *)
(* returns, whatever the order in which its lists were built, Ga and the   *)
(* mapping returned are those a second call on the same layout computes.   *)
(***************************************************************************)
C12_PureAndIdempotent ==
    /\ [][ pc = "expand" =>
              /\ layout' = layout
              /\ stdout' = stdout /\ depfile' = depfile /\ D' = D ]_vars
    /\ [](Expanded => Ga = GaAgain /\ Ma = MaAgain)

\* expand_layout has returned on a layout in which a group has two
\* parents, one of them the parent of the other, and a module of the
\* group is allowed a module of theirs.
C12_Witness ==
    /\ pc = "open"
    /\ \E gg \in DOMAIN easelparents :
          /\ Cardinality(easelparents[gg]) >= 2
          /\ \E h \in easelparents[gg] : easelparents[h] \cap easelparents[gg] # {}
          /\ \E mm \in set(easelmods[gg]) : Ma[mm] # {}
    /\ Ma = MaAgain

-----------------------------------------------------------------------------
(* Termination of the traversal.                                           *)

\* A cycle of parent declarations can be reached from group gg.
CycleFrom(gg) == \E h \in ReachableLayers(gg) : h \in ReachableLayers(h)

(***************************************************************************)
(* C13.  On a layout whose parent relation is acyclic, the layout of       *)
(* techtree.py included, expand_layout, once entered, returns: the while   *)
(* loop ends for every group.  While the loop runs for a group from which  *)
(* a cycle of parent declarations can be reached, pda is never empty, and  *)
(* on a layout with such a group expand_layout never returns.              *)
(***************************************************************************)
C13_Termination ==
    /\ (pc = "expand" /\ Acyclic) ~> (pc = "open")
    /\ []((pc = "expand" /\ g \in DOMAIN easelparents /\ CycleFrom(g))
             => pda # << >>)
    /\ []((\E gg \in DOMAIN easelparents : CycleFrom(gg)) => pc # "open")

\* expand_layout has returned on the layout of techtree.py, in which BASE
\* is reached from ADVANCED_SEQUENCES through each of its four parents.
C13_Witness ==
    /\ pc = "open"
    /\ easelparents = BuiltinParents
    /\ Cardinality(easelparents["ADVANCED_SEQUENCES"]) = 4
    /\ \A h \in easelparents["ADVANCED_SEQUENCES"] : "BASE" \in easelparents[h]
    /\ "BASE" \in Ga["ADVANCED_SEQUENCES"]
    /\ DOMAIN Ga = set(BuiltinGrps)

-----------------------------------------------------------------------------
(* The extras of the layout of techtree.py.                                *)

\* The group that lists module mm.
GroupOf(mm) == CHOOSE x \in DOMAIN easelmods : mm \in set(easelmods[x])

(***************************************************************************)
(* C14.  In the layout of techtree.py every name in easeladd[m] is a       *)
(* module of the layout, listed in the group of m or in a group reachable  *)
(* from it through easelparents; once expand_layout has returned, that     *)
(* group is the group of m or is in its Ga entry, so Ma[m] holds only      *)
(* modules of the group of m and of the groups it may depend on.           *)
(***************************************************************************)
C14_ExtrasWithinReach ==
    /\ \A mm \in DOMAIN easeladd : \A y \in easeladd[mm] :
          /\ y \in set(MmList)
          /\ \/ GroupOf(y) = GroupOf(mm)
             \/ GroupOf(y) \in ReachableLayers(GroupOf(mm))
    /\ Expanded =>
          \A mm \in DOMAIN easeladd :
             /\ \A y \in easeladd[mm] :
                   GroupOf(y) \in Ga[GroupOf(mm)] \cup {GroupOf(mm)}
             /\ \A y \in Ma[mm] :
                   GroupOf(y) \in ReachableLayers(GroupOf(mm)) \cup {GroupOf(mm)}

\* expand_layout has returned on the built-in tables: tree, of
\* ALGORITHMS, declares a module of BASE, the parent of ALGORITHMS, and a
\* module of its own group.
C14_Witness ==
    /\ pc = "open"
    /\ easeladd = BuiltinAdd
    /\ {"stack", "arr2"} \subseteq easeladd["tree"]
    /\ GroupOf("tree") = "ALGORITHMS"
    /\ GroupOf("arr2") = "ALGORITHMS"
    /\ GroupOf("stack") = "BASE"
    /\ "BASE" \in Ga["ALGORITHMS"]
    /\ {"stack", "arr2"} \subseteq Ma["tree"]

-----------------------------------------------------------------------------
(* Several rules for one module.                                           *)

\* The target lines that normalize to module mm.
RulesOf(mm) == { i \in Targets : TargetOf(i) = mm }

\* The dependencies the listing shows for module mm.
ListedDeps(mm) ==
    LET i == CHOOSE n \in 1..Len(stdout) : stdout[n] = Printed("name", mm, {}, 0)
        j == CHOOSE n \in i..Len(stdout) :
                /\ stdout[n].k = "eol"
                /\ \A q \in i..n : stdout[q].k = "eol" => q = n
    IN  { stdout[q].s : q \in (i + 1)..(j - 1) }

(***************************************************************************)
(* C15.  When the lines read hold more than one target line for module     *)
(* mm, D[mm] is exactly the set of the last of these rules, so that a      *)
(* dependency only the earlier rules name is not in it.  When the run has  *)
(* ended with status 0 and mm is a module of the layout, the listing       *)
(* shows for mm the layout modules of the last rule, and the violation     *)
(* reported for mm is what the last rule names beyond Ma[mm], or none.     *)
(***************************************************************************)
C15_LastRuleWins ==
    \A mm \in DOMAIN D :
       Cardinality(RulesOf(mm)) >= 2 =>
          LET last == ActualSet(LastRule(mm)) IN
          /\ D[mm] = last
          /\ (status = << 0 >> /\ mm \in set(MmList)) =>
                /\ ListedDeps(mm) = last \cap set(MmList)
                /\ \A n \in ViolationsOf(mm) : stdout[n].x = last \ Ma[mm]
                /\ ViolationsOf(mm) = {} <=> last \subseteq Ma[mm]

\* A run that ended with status 0: a rule of b names a, which b is not
\* allowed, a later rule of b names x only; b is listed without a, and
\* the violation of b shows x alone.
C15_Witness ==
    /\ status = << 0 >>
    /\ RulesOf("b") = {1, 2}
    /\ "a" \in ActualSet(1) /\ ActualSet(2) = {"x"}
    /\ "b" \in set(MmList) /\ "a" \in set(MmList)
    /\ "a" \notin Ma["b"]
    /\ D["b"] = {"x"}
    /\ ListedDeps("b") = {}
    /\ \E n \in ViolationsOf("b") : stdout[n].x = {"x"}

=============================================================================
